---- MODULE Spec2Model ----
(***************************************************************************)
(* A model of the gdrive-api HTTP gateway (src/main.go): five echo         *)
(* handlers that translate HTTP requests into calls on the Google Drive    *)
(* files API.  The remote store is the environment: a set of files that     *)
(* the handlers read and change through List, Get, Download, Create and    *)
(* Delete calls.  Every remote call is one atomic step, so that requests    *)
(* handled at the same time interleave at their remote calls, as the        *)
(* goroutines echo starts for them do.                                      *)
(*                                                                         *)
(* Encodings: a file id is a positive number and 0 stands for the empty     *)
(* string; file names, folder ids and mime types are strings; a file's      *)
(* content is a sequence of bytes.  A response status of 0 means that no    *)
(* response has been written.                                               *)
(*                                                                         *)
(* Environment assumptions (the Drive API is not part of the repository):   *)
(* a name query returns exactly the files of that name, in an order the     *)
(* store picks; Get, Download and Delete of an id the store does not hold   *)
(* fail; Create gives the new file a fresh id and a non-empty link; a call  *)
(* that fails has no effect on the store; any call may fail (transport or   *)
(* authentication error).                                                   *)
(***************************************************************************)
EXTENDS Naturals, Sequences, FiniteSets

VARIABLES
    store,      \* the remote store: a set of file records
    nextId,     \* the id the remote store gives the next created file
    req,        \* req[s]: the request handled in slot s (one goroutine each)
    started,    \* number of requests received so far
    alive,      \* FALSE once log.Fatal has terminated the process
    initUnique  \* history: the initial store held at most one file per name

vars == <<store, nextId, req, started, alive, initUnique>>

---------------------------------------------------------------------------
(* Bounds of the model. *)

\* requests received in one behaviour
MaxRequests == 2

\* the goroutines that handle requests at the same time: two, the least
\* number that interleaves the remote calls of one request with another's
Slots == {1, 2}

---------------------------------------------------------------------------
(* Values. *)

StatusOK == 200
StatusBadRequest == 400
StatusNotFound == 404
StatusInternalServerError == 500
\* no response written
NoStatus == 0
\* the empty string, as a file id
NoId == 0

Names == {"a", "b"}
Folders == {"F"}
\* the multipart file part a client uploads: Content-Type header and bytes
Parts == { [mime |-> "image/png", content |-> <<"x", "y">>] }

LinkOf(id) == <<"https://drive.google.com/file/d/", id>>

File(id, name, parent, mime, content) ==
    [id |-> id, name |-> name, parent |-> parent, mime |-> mime,
     content |-> content, webViewLink |-> LinkOf(id)]

\* the files the store may hold at the start: two of the same name, one other
InitFiles == { File(1, "a", "F", "text/plain", <<"x">>),
               File(2, "a", "G", "text/html", <<"x", "x">>),
               File(3, "b", "F", "text/plain", <<"y">>) }

\* the stores a behaviour may start from: empty, one file per name, and a
\* store that already holds two files of one name
InitStores == { {}, {f \in InitFiles : f.id # 2}, InitFiles }

NoData == [file_id |-> NoId, file_name |-> "", file_url |-> <<>>]

\* a slot with no request: every field at its zero value
IdleReq ==
    [kind |-> "none", pc |-> "idle",
     folder |-> "", hasFile |-> FALSE, name |-> "", part |-> [mime |-> "", content |-> <<>>],
     fileId |-> NoId, bound |-> FALSE,
     credLoaded |-> FALSE, calls |-> <<>>, failed |-> "",
     searched |-> FALSE, r |-> <<>>, uploadedFile |-> NoData,
     status |-> NoStatus, error |-> "", data |-> NoData,
     contentType |-> "", body |-> <<>>, bodyOpen |-> FALSE, acquired |-> FALSE,
     written |-> <<>>, remote |-> [mime |-> "", content |-> <<>>], escaped |-> FALSE,
     held |-> FALSE, changed |-> FALSE, kept |-> {},
     k0 |-> 0, kAfter |-> 0]

CountNamed(st, n) == Cardinality({f \in st : f.name = n})

AtMostOnePerName(st) == \A f, g \in st : f.name = g.name => f = g

Init ==
    /\ store \in InitStores
    /\ nextId = Cardinality(InitFiles) + 1
    /\ req = [s \in Slots |-> IdleReq]
    /\ started = 0
    /\ alive = TRUE
    /\ initUnique = AtMostOnePerName(store)

---------------------------------------------------------------------------
(* The remote store (Drive files API), as the handlers call it. *)

RECURSIVE Perms(_)
Perms(S) ==
    IF S = {} THEN {<<>>}
    ELSE UNION { { <<x>> \o p : p \in Perms(S \ {x}) } : x \in S }

\* Files.List().Q("name='N'"): the files named N, in any order
ListByName(st, n) == Perms({f \in st : f.name = n})

\* Files.List().Q("'P' in parents"): the files under folder P, in any order
ListByParent(st, p) == Perms({f \in st : f.parent = p})

Holds(st, id) == \E f \in st : f.id = id

FileOf(st, id) == CHOOSE f \in st : f.id = id

\* Files.Delete(id).Do(): the store without the file of that id
DeleteFrom(st, id) == {f \in st : f.id # id}

\* the fields a Get with Fields("id, name, webViewLink") returns
Metadata(f) == [file_id |-> f.id, file_name |-> f.name, file_url |-> f.webViewLink]

\* the response of Get(id).Download(): Content-Type header and body
DownloadOf(f) == [mime |-> f.mime, content |-> f.content]

\* the fields the Create response carries: webViewLink is not among them
Created(f) == [file_id |-> f.id, file_name |-> f.name, file_url |-> <<>>]

Call(op, arg) == [op |-> op, arg |-> arg]

---------------------------------------------------------------------------
(* Helpers shared by the handlers. *)

Free(s) == req[s].pc \in {"idle", "done"}

\* a request may be received: the process runs and the bound is not reached
\* (a request takes the first free slot: which slot it takes is immaterial)
Accept(s) ==
    /\ alive /\ Free(s) /\ started < MaxRequests
    /\ \A t \in Slots : t < s => ~Free(t)

\* c.JSON(status, {"error": msg}) and return
Respond(rq, status, msg) ==
    [rq EXCEPT !.pc = "done", !.status = status, !.error = msg]

\* (mutant) a failed step is answered 400
Abort_BadRequest(rq, step, msg) ==
    [Respond(rq, StatusBadRequest, msg) EXCEPT !.failed = step]

\* (mutant) a failed step's error is returned from the handler, for echo's
\* error handler to answer
Abort_ReturnErr(rq, step, msg) ==
    [Respond(rq, StatusInternalServerError, "Internal Server Error")
       EXCEPT !.failed = step, !.escaped = TRUE]

\* a failed step answered with 500
Abort(rq, step, msg) ==
    [Respond(rq, StatusInternalServerError, msg) EXCEPT !.failed = step]

\* ServiceAccount: "fatal" when the credential file cannot be read
ServiceAccount(readable) == IF readable THEN "client" ELSE "fatal"

\* ServiceAccount followed by drive.NewService, as every handler runs them:
\* the request goes on at pc `next`, is answered 500, or the process ends
Authenticate(rq, readable, serviceOK, next) ==
    IF ServiceAccount(readable) = "fatal"
    THEN [rq EXCEPT !.pc = "killed", !.failed = "authenticate"]
    ELSE IF ~serviceOK
         THEN Abort([rq EXCEPT !.credLoaded = TRUE], "authenticate",
                    "Failed to create Google Drive service")
         ELSE [rq EXCEPT !.credLoaded = TRUE, !.pc = next]

Put(s, rq) ==
    /\ req' = [req EXCEPT ![s] = rq]
    /\ alive' = (alive /\ rq.pc # "killed")

---------------------------------------------------------------------------
(* uploadFileHandler, POST /upload/file. *)

\* (mutant) the folder field is not checked
UploadValidate_NoFolderCheck(folderId, hasFile, openOK) ==
    IF ~hasFile THEN <<StatusBadRequest, "Failed to read file from request">>
    ELSE IF ~openOK THEN <<StatusInternalServerError, "Failed to open file">>
    ELSE <<NoStatus, "">>

\* the checks of the form fields and of file.Open, in the handler's order:
\* the status and message of the early return, or status NoStatus to go on
UploadValidate(folderId, hasFile, openOK) ==
    IF folderId = "" THEN <<StatusBadRequest, "Folder ID is required">>
    ELSE IF ~hasFile THEN <<StatusBadRequest, "Failed to read file from request">>
    ELSE IF ~openOK THEN <<StatusInternalServerError, "Failed to open file">>
    ELSE <<NoStatus, "">>

\* (mutant) the existing file is never deleted
AfterList_NeverDelete(r) == "create"

\* if len(r.Files) > 0 the handler deletes before it creates
AfterList(r) == IF Len(r) > 0 THEN "delete" ELSE "create"

\* (mutant) the last match is deleted instead of the first
DeleteTarget_Last(r) == r[Len(r)].id

\* the file the handler deletes: r.Files[0].Id
DeleteTarget(r) == r[1].id

\* the file createFile asks the store to create
createFile(id, name, mimeType, content, parentId) ==
    File(id, name, parentId, mimeType, content)

\* (mutant) the response is built from the Create result, without the re-fetch
UploadData_FromCreate(uploadedFile, getFile) == uploadedFile

\* the data of the 200 response: read from getFile, not from uploadedFile
UploadData(uploadedFile, getFile) == getFile

\* what ServiceAccount and drive.NewService may do: the credential file
\* is unreadable, the service cannot be built, or both succeed
AuthOutcomes == {"fatal", "fail", "ok"}

\* the upload requests a client may send: the folder field, and the file
\* part if there is one (with whether file.Open succeeds on it)
UploadInputs ==
    { [folder |-> fo, hasFile |-> FALSE, openOK |-> FALSE, name |-> "",
       part |-> IdleReq.part] : fo \in Folders \cup {""} }
    \cup
    { [folder |-> fo, hasFile |-> TRUE, openOK |-> o, name |-> n, part |-> pt] :
        fo \in Folders \cup {""}, o \in BOOLEAN, n \in Names, pt \in Parts }

\* folder, file part and file.Open are checked, then the client is built
UploadBegin(s) ==
    /\ Accept(s)
    /\ \E in \in UploadInputs, au \in AuthOutcomes :
          LET rq == [IdleReq EXCEPT !.kind = "upload", !.folder = in.folder,
                                    !.hasFile = in.hasFile, !.name = in.name,
                                    !.part = in.part,
                                    !.k0 = CountNamed(store, in.name)]
              v  == UploadValidate(in.folder, in.hasFile, in.openOK)
          IN  Put(s, IF v[1] = StatusBadRequest THEN Respond(rq, v[1], v[2])
                     ELSE IF v[1] # NoStatus THEN Abort(rq, "open", v[2])
                     ELSE Authenticate(rq, au # "fatal", au = "ok", "list"))
    /\ started' = started + 1
    /\ UNCHANGED <<store, nextId, initUnique>>

\* srv.Files.List().Q("name='" + file.Filename + "'")
UploadList(s) ==
    /\ alive /\ req[s].kind = "upload" /\ req[s].pc = "list"
    /\ LET rq == [req[s] EXCEPT !.calls = Append(@, Call("List", req[s].name))]
       IN  \E ok \in BOOLEAN :
             IF ~ok
             THEN Put(s, Abort(rq, "list", "Failed to list files in Google Drive"))
             ELSE \E res \in ListByName(store, rq.name) :
                    Put(s, [rq EXCEPT !.searched = TRUE, !.r = res,
                                      !.pc = AfterList(res)])
    /\ UNCHANGED <<store, nextId, started, initUnique>>

\* srv.Files.Delete(r.Files[0].Id)
UploadDelete(s) ==
    /\ alive /\ req[s].kind = "upload" /\ req[s].pc = "delete"
    /\ LET id == DeleteTarget(req[s].r)
           rq == [req[s] EXCEPT !.calls = Append(@, Call("Delete", id))]
       IN  \E ok \in BOOLEAN :
             IF ok /\ Holds(store, id)
             THEN /\ store' = DeleteFrom(store, id)
                  /\ Put(s, [rq EXCEPT !.pc = "create"])
             ELSE /\ store' = store
                  /\ Put(s, Abort(rq, "delete", "Failed to delete file from Google Drive"))
    /\ UNCHANGED <<nextId, started, initUnique>>

\* createFile(srv, file.Filename, Content-Type, src, folderId)
UploadCreate(s) ==
    /\ alive /\ req[s].kind = "upload" /\ req[s].pc = "create"
    /\ LET rq == [req[s] EXCEPT !.calls = Append(@, Call("Create", req[s].name))]
           f  == createFile(nextId, rq.name, rq.part.mime, rq.part.content, rq.folder)
       IN  \E ok \in BOOLEAN :
             IF ok
             THEN /\ store' = store \cup {f}
                  /\ nextId' = nextId + 1
                  /\ Put(s, [rq EXCEPT !.uploadedFile = Created(f), !.pc = "get"])
             ELSE /\ UNCHANGED <<store, nextId>>
                  /\ Put(s, Abort(rq, "create", "Failed to upload file to Google Drive"))
    /\ UNCHANGED <<started, initUnique>>

\* srv.Files.Get(uploadedFile.Id) and the 200 response
UploadGet(s) ==
    /\ alive /\ req[s].kind = "upload" /\ req[s].pc = "get"
    /\ LET id == req[s].uploadedFile.file_id
           rq == [req[s] EXCEPT !.calls = Append(@, Call("Get", id))]
       IN  \E ok \in BOOLEAN :
             IF ok /\ Holds(store, id)
             THEN Put(s, [Respond(rq, StatusOK, "") EXCEPT
                            !.data = UploadData(rq.uploadedFile, Metadata(FileOf(store, id))),
                            !.kept = {FileOf(store, id)},
                            !.kAfter = CountNamed(store, rq.name)])
             ELSE Put(s, Abort(rq, "get", "Failed to get file metadata from Google Drive"))
    /\ UNCHANGED <<store, nextId, started, initUnique>>

---------------------------------------------------------------------------
(* listFilesHandler, GET /list. *)

\* the folder query parameter is checked, then the client is built
ListBegin(s) ==
    /\ Accept(s)
    /\ \E folderId \in Folders \cup {""}, au \in AuthOutcomes :
          LET rq == [IdleReq EXCEPT !.kind = "list", !.folder = folderId]
          IN  Put(s, IF folderId = ""
                     THEN Respond(rq, StatusBadRequest, "Folder ID is required")
                     ELSE Authenticate(rq, au # "fatal", au = "ok", "list"))
    /\ started' = started + 1
    /\ UNCHANGED <<store, nextId, initUnique>>

\* srv.Files.List().Q("'" + folderId + "' in parents") and the 200 response
ListCall(s) ==
    /\ alive /\ req[s].kind = "list" /\ req[s].pc = "list"
    /\ LET rq == [req[s] EXCEPT !.calls = Append(@, Call("List", req[s].folder))]
       IN  \E ok \in BOOLEAN :
             IF ~ok
             THEN Put(s, Abort(rq, "list", "Failed to list files in Google Drive"))
             ELSE \E res \in ListByParent(store, rq.folder) :
                    Put(s, [Respond(rq, StatusOK, "") EXCEPT
                              !.searched = TRUE, !.r = res])
    /\ UNCHANGED <<store, nextId, started, initUnique>>

---------------------------------------------------------------------------
(* getFileHandler, GET /download/:fileId. *)

\* the file ids a client may name: the empty string, and every id the store
\* has given out so far (of a file it holds or of one it holds no longer)
IdInputs == {NoId} \cup (1..(nextId - 1))

\* the content type c.Stream is given: file.Header.Get("Content-Type")
StreamType(file) == file.mime

\* (mutant) the body is closed on the success path only, not by a defer
Return_NoDefer(rq, err) ==
    [rq EXCEPT !.pc = "done", !.bodyOpen = err, !.escaped = err]

\* the handler returns: the deferred file.Body.Close() runs, and the error
\* of c.Stream (if any) is the handler's result
Return(rq, err) ==
    [rq EXCEPT !.pc = "done", !.bodyOpen = FALSE, !.escaped = err]

\* the fileId path parameter is checked, then the client is built
DownloadBegin(s) ==
    /\ Accept(s)
    /\ \E fileId \in IdInputs, au \in AuthOutcomes :
          LET rq == [IdleReq EXCEPT !.kind = "download", !.fileId = fileId]
          IN  Put(s, IF fileId = NoId
                     THEN Respond(rq, StatusBadRequest, "File ID is required")
                     ELSE Authenticate(rq, au # "fatal", au = "ok", "download"))
    /\ started' = started + 1
    /\ UNCHANGED <<store, nextId, initUnique>>

\* srv.Files.Get(fileId).Download(); on success c.Stream writes the content
\* type and the status line before it copies the body
DownloadCall(s) ==
    /\ alive /\ req[s].kind = "download" /\ req[s].pc = "download"
    /\ LET id == req[s].fileId
           rq == [req[s] EXCEPT !.calls = Append(@, Call("Download", id))]
       IN  \E ok \in BOOLEAN :
             IF ok /\ Holds(store, id)
             THEN LET file == DownloadOf(FileOf(store, id))
                  IN  Put(s, [rq EXCEPT !.acquired = TRUE, !.bodyOpen = TRUE,
                                        !.remote = file, !.body = file.content,
                                        !.contentType = StreamType(file),
                                        !.status = StatusOK, !.pc = "stream"])
             ELSE Put(s, Abort(rq, "download", "Failed to get file from Google Drive"))
    /\ UNCHANGED <<store, nextId, started, initUnique>>

\* io.Copy inside c.Stream: the next byte of file.Body is written to the
\* response, or the body is at its end, or reading it fails
StreamCopy(s) ==
    /\ alive /\ req[s].kind = "download" /\ req[s].pc = "stream"
    /\ LET rq == req[s]
       IN  IF rq.body = <<>>
           THEN Put(s, Return(rq, FALSE))
           ELSE \E ok \in BOOLEAN :
                  IF ok
                  THEN Put(s, [rq EXCEPT !.written = Append(@, Head(rq.body)),
                                         !.body = Tail(@)])
                  ELSE Put(s, Return([rq EXCEPT !.failed = "transfer"], TRUE))
    /\ UNCHANGED <<store, nextId, started, initUnique>>

---------------------------------------------------------------------------
(* getFileMetadataHandler, POST /file/metadata. *)

\* (mutant) file_name is looked at before file_id
MetadataDispatch_NameFirst(fileId, fileName) ==
    IF fileName # "" THEN "list"
    ELSE IF fileId # NoId THEN "get"
    ELSE "neither"

\* the lookup the two body fields select: by id if file_id is given, else by
\* name if file_name is given, else none
MetadataDispatch(fileId, fileName) ==
    IF fileId # NoId THEN "get"
    ELSE IF fileName # "" THEN "list"
    ELSE "neither"

\* the body is bound, the client is built, and a body with neither field is
\* answered 400
MetadataBegin(s) ==
    /\ Accept(s)
    /\ \E bindOK \in BOOLEAN, fileId \in IdInputs, fileName \in Names \cup {""},
          au \in AuthOutcomes :
          LET rq == IF bindOK
                    THEN [IdleReq EXCEPT !.kind = "metadata", !.bound = TRUE,
                                         !.fileId = fileId, !.name = fileName]
                    ELSE [IdleReq EXCEPT !.kind = "metadata"]
              a  == Authenticate(rq, au # "fatal", au = "ok",
                                 MetadataDispatch(fileId, fileName))
          IN  Put(s, IF ~bindOK
                     THEN Respond(rq, StatusBadRequest, "Invalid request body")
                     ELSE IF a.pc = "neither"
                     THEN Respond(a, StatusBadRequest, "File ID or File Name is required")
                     ELSE a)
    /\ started' = started + 1
    /\ UNCHANGED <<store, nextId, initUnique>>

\* srv.Files.Get(body.FileID) and the 200 response
MetadataGet(s) ==
    /\ alive /\ req[s].kind = "metadata" /\ req[s].pc = "get"
    /\ LET id == req[s].fileId
           rq == [req[s] EXCEPT !.calls = Append(@, Call("Get", id))]
       IN  \E ok \in BOOLEAN :
             IF ok /\ Holds(store, id)
             THEN Put(s, [Respond(rq, StatusOK, "") EXCEPT
                            !.data = Metadata(FileOf(store, id))])
             ELSE Put(s, Abort(rq, "get", "Failed to get file metadata from Google Drive"))
    /\ UNCHANGED <<store, nextId, started, initUnique>>

\* srv.Files.List().Q("name='" + body.FileName + "'"): 404 if no file has
\* the name, else the 200 response with r.Files[0]
MetadataList(s) ==
    /\ alive /\ req[s].kind = "metadata" /\ req[s].pc = "list"
    /\ LET rq == [req[s] EXCEPT !.calls = Append(@, Call("List", req[s].name))]
       IN  \E ok \in BOOLEAN :
             IF ~ok
             THEN Put(s, Abort(rq, "list", "Failed to list files in Google Drive"))
             ELSE \E res \in ListByName(store, rq.name) :
                    Put(s, IF Len(res) = 0
                           THEN [Respond(rq, StatusNotFound, "File not found")
                                   EXCEPT !.searched = TRUE, !.r = res]
                           ELSE [Respond(rq, StatusOK, "") EXCEPT
                                   !.searched = TRUE, !.r = res,
                                   !.data = Metadata(res[1])])
    /\ UNCHANGED <<store, nextId, started, initUnique>>

---------------------------------------------------------------------------
(* deleteFileHandler, DELETE /file/delete/:fileId. *)

\* (mutant) the error of the Delete call is ignored
DeleteStatus_IgnoreError(err) == StatusOK

\* the status the handler answers after srv.Files.Delete(fileId).Do()
DeleteStatus(err) == IF err THEN StatusInternalServerError ELSE StatusOK

\* the fileId path parameter is checked, then the client is built
DeleteBegin(s) ==
    /\ Accept(s)
    /\ \E fileId \in IdInputs, au \in AuthOutcomes :
          LET rq == [IdleReq EXCEPT !.kind = "delete", !.fileId = fileId]
          IN  Put(s, IF fileId = NoId
                     THEN Respond(rq, StatusBadRequest, "File ID is required")
                     ELSE Authenticate(rq, au # "fatal", au = "ok", "delete"))
    /\ started' = started + 1
    /\ UNCHANGED <<store, nextId, initUnique>>

\* srv.Files.Delete(fileId).Do() and the response
DeleteCall(s) ==
    /\ alive /\ req[s].kind = "delete" /\ req[s].pc = "delete"
    /\ LET id == req[s].fileId
           rq == [req[s] EXCEPT !.calls = Append(@, Call("Delete", id)),
                                !.held = Holds(store, id)]
       IN  \E ok \in BOOLEAN :
             LET err == ~(ok /\ Holds(store, id))
                 st  == IF err THEN store ELSE DeleteFrom(store, id)
                 ans == IF DeleteStatus(err) = StatusOK
                        THEN [Respond(rq, StatusOK, "") EXCEPT !.data.file_id = id]
                        ELSE Abort(rq, "delete", "Failed to delete file from Google Drive")
             IN  /\ store' = st
                 /\ Put(s, [ans EXCEPT !.changed = (st # store)])
    /\ UNCHANGED <<nextId, started, initUnique>>

---------------------------------------------------------------------------
(* The gateway: echo handles every request in its own goroutine. *)

Next ==
    \/ \E s \in Slots : UploadBegin(s)
    \/ \E s \in Slots : UploadList(s)
    \/ \E s \in Slots : UploadDelete(s)
    \/ \E s \in Slots : UploadCreate(s)
    \/ \E s \in Slots : UploadGet(s)
    \/ \E s \in Slots : ListBegin(s)
    \/ \E s \in Slots : ListCall(s)
    \/ \E s \in Slots : DownloadBegin(s)
    \/ \E s \in Slots : DownloadCall(s)
    \/ \E s \in Slots : StreamCopy(s)
    \/ \E s \in Slots : MetadataBegin(s)
    \/ \E s \in Slots : MetadataGet(s)
    \/ \E s \in Slots : MetadataList(s)
    \/ \E s \in Slots : DeleteBegin(s)
    \/ \E s \in Slots : DeleteCall(s)

Spec == Init /\ [][Next]_vars

\* no request in flight
Quiet == \A s \in Slots : Free(s)

\* requests handled one at a time: a request is received only when none is
\* in flight
NextSeq ==
    \/ Quiet /\ \E s \in Slots : UploadBegin(s)
    \/ \E s \in Slots : UploadList(s)
    \/ \E s \in Slots : UploadDelete(s)
    \/ \E s \in Slots : UploadCreate(s)
    \/ \E s \in Slots : UploadGet(s)
    \/ Quiet /\ \E s \in Slots : ListBegin(s)
    \/ \E s \in Slots : ListCall(s)
    \/ Quiet /\ \E s \in Slots : DownloadBegin(s)
    \/ \E s \in Slots : DownloadCall(s)
    \/ \E s \in Slots : StreamCopy(s)
    \/ Quiet /\ \E s \in Slots : MetadataBegin(s)
    \/ \E s \in Slots : MetadataGet(s)
    \/ \E s \in Slots : MetadataList(s)
    \/ Quiet /\ \E s \in Slots : DeleteBegin(s)
    \/ \E s \in Slots : DeleteCall(s)

SpecSeq == Init /\ [][NextSeq]_vars

---------------------------------------------------------------------------
(* Properties. *)

\* the positions of the calls of one operation in a request's call log
CallsOf(rq, op) == {i \in 1..Len(rq.calls) : rq.calls[i].op = op}

Ended(rq) == rq.pc = "done"

Range(q) == {q[i] : i \in 1..Len(q)}

\* C1: an upload whose name search returned at least one file issues at
\* most one Delete, exactly one by the time it ends; every Delete it issues
\* targets the first file of the search result, and a Create is issued only
\* after that Delete.
C1_DeleteFirstMatch ==
    \A s \in Slots :
      LET rq == req[s]
      IN  (rq.kind = "upload" /\ rq.searched /\ Len(rq.r) > 0) =>
            /\ Cardinality(CallsOf(rq, "Delete")) <= 1
            /\ \A i \in CallsOf(rq, "Delete") : rq.calls[i].arg = rq.r[1].id
            /\ \A j \in CallsOf(rq, "Create") :
                 \E i \in CallsOf(rq, "Delete") : i < j
            /\ (Ended(rq) => Cardinality(CallsOf(rq, "Delete")) = 1)

\* an upload answered 200 whose search returned two files: the second match
\* is still in the store
C1_Witness ==
    \E s \in Slots :
      /\ req[s].kind = "upload" /\ req[s].status = StatusOK
      /\ Len(req[s].r) = 2
      /\ Holds(store, req[s].r[2].id)
      /\ ~Holds(store, req[s].r[1].id)

\* C2: a valid upload (folder given, file part readable) whose name search
\* returned no file and none of whose steps failed issues no Delete and is
\* answered 200 with a non-empty id, the uploaded file's name and a
\* non-empty link; the store then holds that file under the given folder.
C2_FreshUpload ==
    \A s \in Slots :
      LET rq == req[s]
      IN  (/\ rq.kind = "upload" /\ Ended(rq)
           /\ rq.folder # "" /\ rq.hasFile /\ rq.failed = ""
           /\ rq.searched /\ rq.r = <<>>) =>
            /\ CallsOf(rq, "Delete") = {}
            /\ rq.status = StatusOK
            /\ rq.data.file_id # NoId
            /\ rq.data.file_name = rq.name
            /\ rq.data.file_url # <<>>
            /\ \E f \in rq.kept :
                 f.id = rq.data.file_id /\ f.name = rq.name /\ f.parent = rq.folder

\* an upload of a name no file has, answered 200, into a store that holds
\* a file of another name
C2_Witness ==
    \E s \in Slots :
      /\ req[s].kind = "upload" /\ req[s].status = StatusOK
      /\ req[s].searched /\ req[s].r = <<>>
      /\ \E f \in store : f.name # req[s].name
      /\ CountNamed(store, req[s].name) = 1

\* C3: an upload with an empty folder field or without a file part, and a
\* list request with an empty folder parameter, are answered 400 with the
\* credential not loaded and no remote call made.
C3_ValidationFirst ==
    \A s \in Slots :
      LET rq == req[s]
      IN  (\/ rq.kind = "upload" /\ (rq.folder = "" \/ ~rq.hasFile)
           \/ rq.kind = "list" /\ rq.folder = "") =>
            /\ Ended(rq)
            /\ rq.status = StatusBadRequest
            /\ ~rq.credLoaded
            /\ rq.calls = <<>>

\* an upload without a file part answered 400 while another request is in
\* flight
C3_Witness ==
    \E s, u \in Slots :
      /\ req[s].kind = "upload" /\ req[s].folder # "" /\ ~req[s].hasFile
      /\ req[s].status = StatusBadRequest
      /\ ~Free(u)

\* the metadata handler's lookup by id: only Get calls, of the requested id;
\* answered without a failure, the answer is 200 and echoes the id
C4_ById(rq) ==
    /\ \A i \in 1..Len(rq.calls) : rq.calls[i] = Call("Get", rq.fileId)
    /\ (Ended(rq) /\ rq.failed = "") =>
         rq.status = StatusOK /\ rq.data.file_id = rq.fileId

\* the lookup by name: only List calls, of the requested name; answered
\* without a failure, the answer is 404 for an empty result and else 200
\* with the first file of the result
C4_ByName(rq) ==
    /\ \A i \in 1..Len(rq.calls) : rq.calls[i] = Call("List", rq.name)
    /\ (Ended(rq) /\ rq.failed = "") =>
         /\ rq.searched
         /\ \A f \in Range(rq.r) : f.name = rq.name
         /\ IF rq.r = <<>>
            THEN rq.status = StatusNotFound
            ELSE rq.status = StatusOK /\ rq.data = Metadata(rq.r[1])

UploadSteps == {"authenticate", "list", "delete", "create", "get"}

StepError(step) ==
    CASE step = "authenticate" -> "Failed to create Google Drive service"
      [] step = "list"   -> "Failed to list files in Google Drive"
      [] step = "delete" -> "Failed to delete file from Google Drive"
      [] step = "create" -> "Failed to upload file to Google Drive"
      [] step = "get"    -> "Failed to get file metadata from Google Drive"

Ops(rq) == [i \in 1..Len(rq.calls) |-> rq.calls[i].op]

\* the calls of an upload that failed at `step`, with or without the Delete
CallsUpTo(step) ==
    CASE step = "authenticate" -> {<<>>}
      [] step = "list"   -> {<<"List">>}
      [] step = "delete" -> {<<"List", "Delete">>}
      [] step = "create" -> {<<"List", "Create">>, <<"List", "Delete", "Create">>}
      [] step = "get"    -> {<<"List", "Create", "Get">>,
                             <<"List", "Delete", "Create", "Get">>}

\* C5 (as amended): an upload that fails at list, delete, create, re-fetch
\* or at building the client ends with the 500 response of that step, its
\* last call being the failing one (none for the client), and a file it
\* deleted is not restored; an unreadable credential file instead ends the
\* process, with no response and no call.
C5_AbortAtFailingStep ==
    \A s \in Slots :
      LET rq == req[s]
      IN  (rq.kind = "upload" /\ rq.failed \in UploadSteps) =>
            IF rq.pc = "killed"
            THEN /\ rq.failed = "authenticate" /\ ~alive
                 /\ rq.status = NoStatus /\ ~rq.credLoaded /\ rq.calls = <<>>
            ELSE /\ Ended(rq)
                 /\ rq.status = StatusInternalServerError
                 /\ rq.error = StepError(rq.failed)
                 /\ Ops(rq) \in CallsUpTo(rq.failed)
                 /\ (rq.failed \in {"create", "get"} /\ CallsOf(rq, "Delete") # {}) =>
                      ~Holds(store, rq.r[1].id)

\* C5 (as stated): a failure at any of the steps, authenticate included,
\* ends the request with a 500 response.
C5_Original ==
    \A s \in Slots :
      LET rq == req[s]
      IN  (rq.kind = "upload" /\ rq.failed \in UploadSteps) =>
            /\ rq.status = StatusInternalServerError
            /\ Ops(rq) \in CallsUpTo(rq.failed)

\* the only file of its name was deleted, then the create failed: the
\* request is answered 500 and the store holds no file of that name
C5_Witness ==
    \E s \in Slots :
      /\ req[s].kind = "upload" /\ req[s].failed = "create"
      /\ req[s].status = StatusInternalServerError
      /\ CallsOf(req[s], "Delete") # {}
      /\ req[s].k0 = 1 /\ CountNamed(store, req[s].name) = 0

\* C6: after a successful Download the response carries status 200 and the
\* remote content type, the bytes written are the bytes read so far of the
\* remote body (all of them when the transfer completes), and the body is
\* open while streaming and closed when the handler has returned, whether
\* the transfer completed or failed midway.
C6_StreamAndClose ==
    \A s \in Slots :
      LET rq == req[s]
      IN  rq.kind = "download" =>
            /\ rq.acquired =>
                 /\ rq.status = StatusOK
                 /\ rq.contentType = rq.remote.mime
                 /\ rq.written \o rq.body = rq.remote.content
            /\ (Ended(rq) /\ rq.acquired /\ ~rq.escaped) =>
                 rq.written = rq.remote.content
            /\ rq.bodyOpen = (rq.pc = "stream")
            /\ rq.escaped => (rq.acquired /\ Ended(rq))

\* a transfer that failed after the first of two bytes: the body is closed
C6_Witness ==
    \E s \in Slots :
      /\ req[s].kind = "download" /\ req[s].pc = "done" /\ req[s].escaped
      /\ Len(req[s].written) = 1 /\ Len(req[s].remote.content) = 2
      /\ ~req[s].bodyOpen

\* C7: a delete of an id the store does not hold is answered 500 and leaves
\* the store as it is; a delete answered 200 removed the file, and the store
\* never holds that id again, so a second delete of the id is of the first
\* kind: two deletes leave the store as one does.
C7_DeleteIdempotent ==
    \A s \in Slots :
      LET rq == req[s]
      IN  (rq.kind = "delete" /\ Ended(rq) /\ rq.calls # <<>>) =>
            /\ rq.calls = <<Call("Delete", rq.fileId)>>
            /\ ~rq.held =>
                 rq.status = StatusInternalServerError /\ ~rq.changed
            /\ rq.status = StatusOK =>
                 rq.held /\ rq.changed /\ ~Holds(store, rq.fileId)
            /\ rq.status # StatusOK => ~rq.changed

\* two deletes of one id: the first answered 200, the second found the id
\* gone and was answered 500
C7_Witness ==
    \E s, u \in Slots :
      /\ req[s].kind = "delete" /\ req[u].kind = "delete"
      /\ req[s].fileId = req[u].fileId
      /\ req[s].status = StatusOK
      /\ req[u].status = StatusInternalServerError /\ ~req[u].held

\* C8 (as stated): uploads handled at the same time leave a store that
\* uploads handled one after the other could leave: from a store with at
\* most one file per name, no name is ever held twice.
C8_NoDuplicate == initUnique => AtMostOnePerName(store)

\* the failures of a call to the remote store or of building the client
CallFailures == {"authenticate", "list", "delete", "create", "get", "download"}

\* C9 (as amended): in every handler a failed remote call or a failure to
\* build the client ends the request with 500 and no error returned; the
\* exception is a download whose transfer fails after status 200 was
\* written, and whose error the handler returns; a request that ended has a
\* response, and the process ends only by an unreadable credential file.
C9_FailuresAnswered ==
    /\ \A s \in Slots :
         LET rq == req[s]
         IN  /\ (rq.failed \in CallFailures /\ rq.pc # "killed") =>
                  /\ Ended(rq)
                  /\ rq.status = StatusInternalServerError
                  /\ ~rq.escaped
             /\ rq.failed = "transfer" =>
                  /\ rq.kind = "download" /\ Ended(rq)
                  /\ rq.status = StatusOK /\ rq.escaped
             /\ rq.escaped => rq.failed = "transfer"
             /\ Ended(rq) => rq.status # NoStatus
             /\ (rq.status = StatusOK /\ rq.kind # "download") => rq.failed = ""
             /\ rq.pc = "killed" =>
                  /\ rq.failed = "authenticate" /\ ~rq.credLoaded
                  /\ rq.calls = <<>> /\ rq.status = NoStatus
    /\ ~alive <=> \E s \in Slots : req[s].pc = "killed"

\* C9 (as stated): every failure of a remote call ends the request with
\* 500, never with 200 and never with an error returned by the handler.
C9_Original ==
    \A s \in Slots :
      LET rq == req[s]
      IN  (rq.failed \in CallFailures \cup {"transfer"} /\ Ended(rq)) =>
            /\ rq.status = StatusInternalServerError
            /\ ~rq.escaped

\* a failed Download call answered 500, and beside it a download answered
\* 200 whose transfer then failed
C9_Witness ==
    \E s, u \in Slots :
      /\ req[s].kind = "download" /\ req[s].failed = "transfer"
      /\ req[s].status = StatusOK /\ req[s].escaped
      /\ req[u].failed = "download"
      /\ req[u].status = StatusInternalServerError

Max(a, b) == IF a >= b THEN a ELSE b

\* C10: with requests handled one at a time, an upload answered 200 of a
\* name the store held k times leaves it held max(1, k) times; and from a
\* store with at most one file per name every store reached has at most
\* one file per name.
C10_OnePerName ==
    /\ \A s \in Slots :
         LET rq == req[s]
         IN  (rq.kind = "upload" /\ rq.status = StatusOK) =>
               rq.kAfter = Max(1, rq.k0)
    /\ initUnique => AtMostOnePerName(store)

\* an upload answered 200 of a name held twice: it is still held twice
C10_Witness ==
    \E s \in Slots :
      /\ req[s].kind = "upload" /\ req[s].status = StatusOK
      /\ req[s].k0 = 2 /\ req[s].kAfter = 2
      /\ CountNamed(store, req[s].name) = 2

====
